---- MODULE Spec2Model ----
(***************************************************************************)
(* A model of the ArtItem card of src/components/common/ArtItem.js: one    *)
(* mounted component instance, its props, what it renders, its <img> and   *)
(* <canvas> elements, and the events the host delivers to it (image load,  *)
(* image error, clicks, re-render, unmount).                               *)
(***************************************************************************)
EXTENDS Integers, Sequences, FiniteSets, TLC

\* Largest number of pixels (natural width times natural height) of the images
\* the host can deliver.
MaxPixels == 2

VARIABLES
  mounted,      \* the component instance is in the view tree
  props,        \* { gemId, dataUrl, buttonText, isButtonDisabled, onButtonClick }
  location,     \* useLocation(): the router's current location
  rendered,     \* what the last render returned
  img,          \* the <img> element: its src and the state of its request
  canvasRef,    \* canvasRef.current
  canvas,       \* the <canvas> element: width, height, bitmap
  lastLoaded,   \* the image of the most recent load event, NoImage before it
  captureRuns,  \* runs of copyImageOnCanvas since img.src was last set
  loadKind,     \* the most recent load event: "none" yet, the "first", or one
                \* delivering the "same" image as the one before or an "other"
  error,        \* the exception an event handler let escape, "none" if none
  lastClick     \* the outcome of the most recent click on the action button

vars == <<mounted, props, location, rendered, img, canvasRef, canvas,
          lastLoaded, captureRuns, loadKind, error, lastClick>>

----------------------------------------------------------------------------
\* JavaScript values of the props: undefined, a string, a number.

Undef == [t |-> "undefined", s |-> "", n |-> 0]

Str(s) == [t |-> "string", s |-> s, n |-> 0]

Num(n) == [t |-> "number", s |-> "", n |-> n]

\* ToBoolean, as `!!v`, `v && e` and `v || e` apply it.
Truthy(v) ==
  CASE v.t = "undefined" -> FALSE
    [] v.t = "string"    -> v.s # ""
    [] v.t = "number"    -> v.n # 0

IsNonEmptyString(v) == v.t = "string" /\ v.s # ""

\* The string a template literal `${v}` substitutes for a string or undefined.
TemplateString(v) == IF v.t = "undefined" THEN "undefined" ELSE v.s

placeholderDataUrl == Str("art.png")

\* ArtItem.defaultProps.onButtonClick: () => {}
DefaultOnButtonClick == "noop"

----------------------------------------------------------------------------
\* The render function.

\* Variant: isLink = gemId !== undefined.
IsLinkWhenDefined(gemId) == gemId.t # "undefined"

IsLink(gemId) == Truthy(gemId)

NoTarget == [pathname |-> "", prevPathname |-> "", defined |-> FALSE]

LinkTo(gemId, loc) ==
  IF IsLink(gemId)
  THEN [pathname |-> "/gem/" \o TemplateString(gemId),
        prevPathname |-> loc.pathname,
        defined |-> TRUE]
  ELSE NoTarget

ContainerAs(gemId) == IF IsLink(gemId) THEN "Link" ELSE "div"

\* Variant: src={dataUrl}, without the placeholder.
ImgSrcNoFallback(dataUrl) == dataUrl

ImgSrc(dataUrl) == IF Truthy(dataUrl) THEN dataUrl ELSE placeholderDataUrl

\* {buttonText && (<Button ...>{buttonText}</Button>)}: a falsy buttonText is
\* itself the child; React renders undefined and "" as nothing and a number as
\* its digits.
ActionChild(buttonText, isButtonDisabled, onButtonClick) ==
  IF Truthy(buttonText)
  THEN [kind |-> "button", label |-> buttonText,
        isDisabled |-> isButtonDisabled, onClick |-> onButtonClick]
  ELSE IF buttonText.t = "number"
  THEN [kind |-> "text", label |-> buttonText,
        isDisabled |-> FALSE, onClick |-> "none"]
  ELSE [kind |-> "nothing", label |-> Undef,
        isDisabled |-> FALSE, onClick |-> "none"]

Render(p, loc) ==
  [as     |-> ContainerAs(p.gemId),
   to     |-> LinkTo(p.gemId, loc),
   imgSrc |-> ImgSrc(p.dataUrl),
   action |-> ActionChild(p.buttonText, p.isButtonDisabled, p.onButtonClick)]

----------------------------------------------------------------------------
\* Bitmaps.  A pixel is a colour and an alpha, both 0..255; a bitmap maps the
\* coordinates of its pixels that are not fully transparent to those pixels.

Transparent == [c |-> 0, a |-> 0]

EmptyBitmap == [xy \in {} |-> Transparent]

PixelAt(pixels, xy) == IF xy \in DOMAIN pixels THEN pixels[xy] ELSE Transparent

Coords(w, h) == (0 .. (w - 1)) \X (0 .. (h - 1))

\* Source-over compositing of pixel s onto pixel d.
Over(s, d) ==
  LET a == s.a + (d.a * (255 - s.a)) \div 255
  IN  IF a = 0 THEN Transparent
      ELSE [c |-> (s.c * s.a + (d.c * d.a * (255 - s.a)) \div 255) \div a,
            a |-> a]

\* The images the host can deliver: every size of at most MaxPixels pixels,
\* filled in two ways from a palette of a transparent, a half-transparent and an opaque pixel.
Palette == <<Transparent, [c |-> 200, a |-> 128], [c |-> 90, a |-> 255]>>

MkImage(w, h, k) ==
  LET f(xy) == Palette[((xy[1] + xy[2] + k) % 3) + 1]
      ink   == {xy \in Coords(w, h) : f(xy).a # 0}
  IN  [naturalWidth |-> w, naturalHeight |-> h, pixels |-> [xy \in ink |-> f(xy)]]

Sizes == {wh \in (1 .. MaxPixels) \X (1 .. MaxPixels) : wh[1] * wh[2] <= MaxPixels}

Images == {MkImage(wh[1], wh[2], k) : wh \in Sizes, k \in 0 .. 1}

NoImage == [naturalWidth |-> 0, naturalHeight |-> 0, pixels |-> EmptyBitmap]

\* <canvas ref={canvasRef} />: no width or height attribute, so the element
\* starts at the default size with a transparent bitmap.
DefaultCanvasWidth == 300

DefaultCanvasHeight == 150

BlankCanvas ==
  [width |-> DefaultCanvasWidth, height |-> DefaultCanvasHeight, pixels |-> EmptyBitmap]

Null == "null"

CanvasElement == "canvas"

\* canvas.width = w: assigning a dimension resets the bitmap to transparent.
SetCanvasWidth(cv, w) == [width |-> w, height |-> cv.height, pixels |-> EmptyBitmap]

\* canvas.height = h
SetCanvasHeight(cv, h) == [width |-> cv.width, height |-> h, pixels |-> EmptyBitmap]

\* ctx.drawImage(image, dx, dy): the image at its natural size, composited
\* source-over, clipped to the canvas.
DrawImage(cv, image, dx, dy) ==
  LET f(xy) ==
        LET sxy == <<xy[1] - dx, xy[2] - dy>>
        IN  IF sxy \in Coords(image.naturalWidth, image.naturalHeight)
            THEN Over(PixelAt(image.pixels, sxy), PixelAt(cv.pixels, xy))
            ELSE PixelAt(cv.pixels, xy)
      touched == {<<x + dx, y + dy>> :
                    <<x, y>> \in Coords(image.naturalWidth, image.naturalHeight)}
      inside  == {xy \in touched \cup DOMAIN cv.pixels :
                    /\ xy[1] \in 0 .. (cv.width - 1)
                    /\ xy[2] \in 0 .. (cv.height - 1)}
      ink     == {xy \in inside : f(xy).a # 0}
  IN  [cv EXCEPT !.pixels = [xy \in ink |-> f(xy)]]

\* Variant: canvas.width = image.naturalHeight; canvas.height = image.naturalWidth.
copyImageSwappedSize(image, ref, cv) ==
  IF ref = Null
  THEN [canvas |-> cv, error |-> "TypeError"]
  ELSE LET sized == SetCanvasHeight(SetCanvasWidth(cv, image.naturalHeight),
                                    image.naturalWidth)
       IN  [canvas |-> DrawImage(sized, image, 0, 0), error |-> "none"]

\* Variant: the canvas is resized only when its size differs from the image's.
copyImageLazyResize(image, ref, cv) ==
  IF ref = Null
  THEN [canvas |-> cv, error |-> "TypeError"]
  ELSE LET sized ==
             IF cv.width = image.naturalWidth /\ cv.height = image.naturalHeight
             THEN cv
             ELSE SetCanvasHeight(SetCanvasWidth(cv, image.naturalWidth),
                                  image.naturalHeight)
       IN  [canvas |-> DrawImage(sized, image, 0, 0), error |-> "none"]

\* Variant: drawImage runs before the canvas is resized.
copyImageDrawFirst(image, ref, cv) ==
  IF ref = Null
  THEN [canvas |-> cv, error |-> "TypeError"]
  ELSE LET drawn == DrawImage(cv, image, 0, 0)
       IN  [canvas |-> SetCanvasHeight(SetCanvasWidth(drawn, image.naturalWidth),
                                       image.naturalHeight),
            error |-> "none"]

\* function copyImageOnCanvas(event): event.target is `image`, canvasRef.current
\* is `ref`.  With ref null, canvas.getContext throws a TypeError before
\* anything is assigned.
copyImageOnCanvas(image, ref, cv) ==
  IF ref = Null
  THEN [canvas |-> cv, error |-> "TypeError"]
  ELSE LET sized == SetCanvasHeight(SetCanvasWidth(cv, image.naturalWidth),
                                    image.naturalHeight)
       IN  [canvas |-> DrawImage(sized, image, 0, 0), error |-> "none"]

----------------------------------------------------------------------------
\* Variant: onError={copyImageOnCanvas}.  A broken image has natural size 0 x 0
\* and drawImage rejects it with an InvalidStateError.
ImgOnErrorCapture(el, ref, cv) ==
  [img |-> el,
   canvas |-> IF ref = Null THEN cv ELSE SetCanvasHeight(SetCanvasWidth(cv, 0), 0),
   error |-> IF ref = Null THEN "TypeError" ELSE "InvalidStateError",
   captures |-> 1]

\* Variant: onError swaps the element's source for the placeholder.
ImgOnErrorPlaceholder(el, ref, cv) ==
  [img |-> IF el.src = Str("art.png") THEN el
           ELSE [src |-> Str("art.png"), status |-> "pending",
                 attempts |-> el.attempts + 1],
   canvas |-> cv, error |-> "none", captures |-> 0]

\* The <img> element.  <img ... onLoad={copyImageOnCanvas} /> binds no onError:
\* an error event leaves the element, the canvas and the page as they are.
ImgOnError(el, ref, cv) ==
  [img |-> el, canvas |-> cv, error |-> "none", captures |-> 0]

\* React commits the rendered src to the element; a new src starts a new
\* request, the same src leaves the element alone.
CommitImg(el, src) ==
  IF el.src = src THEN el ELSE [src |-> src, status |-> "pending", attempts |-> 1]

----------------------------------------------------------------------------
\* Clicks.  A click event carries the flag a handler sets with preventDefault().

NewClick == [defaultPrevented |-> FALSE]

\* The caller's onButtonClick: the default () => {}, or one that calls
\* event.preventDefault().
OnButtonClickHandlers == {DefaultOnButtonClick, "preventDefault"}

CallOnButtonClick(handler, ev) ==
  IF handler = "preventDefault" THEN [ev EXCEPT !.defaultPrevented = TRUE] ELSE ev

\* <Button isDisabled onClick>: an enabled button hands the click to onClick
\* once; the click then bubbles to the container.
ButtonClick(action, ev) ==
  IF action.isDisabled
  THEN [ev |-> ev, calls |-> 0, bubbles |-> FALSE]
  ELSE [ev |-> CallOnButtonClick(action.onClick, ev), calls |-> 1, bubbles |-> TRUE]

\* The container StyledContainer is rendered as={isLink ? Link : 'div'}: a Link
\* navigates to `to` on a click that reaches it unless a handler prevented the
\* default; a div has no navigation.
ContainerClick(r, ev) == r.as = "Link" /\ ~ev.defaultPrevented

----------------------------------------------------------------------------
\* The props a parent can pass.

GemIds == {Undef, Str(""), Str("gem42"), Str("7")}

DataUrls == {Undef, Str(""), Str("https://x/img.png")}

ButtonTexts == {Undef, Str(""), Str("Bid 55"), Num(0), Num(55)}

PropsDomain ==
  [gemId : GemIds, dataUrl : DataUrls, buttonText : ButtonTexts,
   isButtonDisabled : BOOLEAN, onButtonClick : OnButtonClickHandlers]

PropValues ==
  [gemId |-> GemIds, dataUrl |-> DataUrls, buttonText |-> ButtonTexts,
   isButtonDisabled |-> BOOLEAN, onButtonClick |-> OnButtonClickHandlers]

NoClick == [clicked |-> FALSE, calls |-> 0, navigated |-> FALSE]

\* What is left of the instance's props and output once it is unmounted.
NoProps ==
  [gemId |-> Undef, dataUrl |-> Undef, buttonText |-> Undef,
   isButtonDisabled |-> FALSE, onButtonClick |-> DefaultOnButtonClick]

NoRender ==
  [as |-> "none", to |-> NoTarget, imgSrc |-> Undef,
   action |-> [kind |-> "nothing", label |-> Undef,
               isDisabled |-> FALSE, onClick |-> "none"]]

----------------------------------------------------------------------------
\* The component mounts: first render, refs attached, image request started.
Init ==
  /\ mounted = TRUE
  /\ props \in PropsDomain
  /\ location = [pathname |-> "/"]
  /\ rendered = Render(props, location)
  /\ img = [src |-> rendered.imgSrc, status |-> "pending", attempts |-> 1]
  /\ canvasRef = CanvasElement
  /\ canvas = BlankCanvas
  /\ lastLoaded = NoImage
  /\ captureRuns = 0
  /\ loadKind = "none"
  /\ error = "none"
  /\ lastClick = NoClick

\* The parent renders the card again with prop k changed to v.
Rerender(k, v) ==
  /\ mounted
  /\ v # props[k]
  /\ props' = [props EXCEPT ![k] = v]
  /\ rendered' = Render(props', location)
  /\ img' = CommitImg(img, rendered'.imgSrc)
  /\ captureRuns' = IF img'.src = img.src THEN captureRuns ELSE 0
  /\ UNCHANGED <<mounted, location, canvasRef, canvas, lastLoaded, loadKind, error,
                 lastClick>>

\* The pending request succeeds with `image`: the load event runs onLoad.
ImageLoad(image) ==
  /\ mounted
  /\ img.status = "pending"
  /\ LET r == copyImageOnCanvas(image, canvasRef, canvas)
     IN  /\ canvas' = r.canvas
         /\ error' = r.error
  /\ img' = [img EXCEPT !.status = "loaded"]
  /\ lastLoaded' = image
  /\ loadKind' = IF lastLoaded = NoImage THEN "first"
                 ELSE IF image = lastLoaded THEN "same" ELSE "other"
  /\ captureRuns' = captureRuns + 1
  /\ UNCHANGED <<mounted, props, location, rendered, canvasRef, lastClick>>

\* The pending request fails: the error event finds no handler.
ImageError ==
  /\ img.status = "pending"
  /\ LET r == ImgOnError([img EXCEPT !.status = "broken"], canvasRef, canvas)
     IN  /\ img' = r.img
         /\ canvas' = r.canvas
         /\ error' = r.error
         /\ captureRuns' = captureRuns + r.captures
  /\ UNCHANGED <<mounted, props, location, rendered, canvasRef, lastLoaded,
                 loadKind, lastClick>>

\* A click on the action button.
ClickButton ==
  /\ mounted
  /\ rendered.action.kind = "button"
  /\ ~rendered.action.isDisabled
  /\ LET b   == ButtonClick(rendered.action, NewClick)
         nav == b.bubbles /\ ContainerClick(rendered, b.ev)
     IN  /\ lastClick' = [clicked |-> TRUE, calls |-> b.calls, navigated |-> nav]
         /\ location' = IF nav THEN [pathname |-> rendered.to.pathname] ELSE location
  /\ rendered' = Render(props, location')
  /\ UNCHANGED <<mounted, props, img, canvasRef, canvas, lastLoaded, captureRuns,
                 loadKind, error>>

\* A click on the card outside the button.
ClickCard ==
  /\ mounted
  /\ LET nav == ContainerClick(rendered, NewClick)
     IN  location' = IF nav THEN [pathname |-> rendered.to.pathname] ELSE location
  /\ rendered' = Render(props, location')
  /\ UNCHANGED <<mounted, props, img, canvasRef, canvas, lastLoaded, captureRuns,
                 loadKind, error, lastClick>>

\* The card leaves the view tree: its props and output are dropped and React
\* sets canvasRef.current to null.  The image request is not cancelled.
Unmount ==
  /\ mounted
  /\ mounted' = FALSE
  /\ canvasRef' = Null
  /\ props' = NoProps
  /\ rendered' = NoRender
  /\ UNCHANGED <<location, img, canvas, lastLoaded, captureRuns, loadKind, error,
                 lastClick>>

\* The request that was pending at unmount succeeds and its load callback runs.
LateImageLoad(image) ==
  /\ ~mounted
  /\ img.status = "pending"
  /\ LET r == copyImageOnCanvas(image, canvasRef, canvas)
     IN  /\ canvas' = r.canvas
         /\ error' = r.error
  /\ img' = [img EXCEPT !.status = "loaded"]
  /\ lastLoaded' = image
  /\ loadKind' = IF lastLoaded = NoImage THEN "first"
                 ELSE IF image = lastLoaded THEN "same" ELSE "other"
  /\ captureRuns' = captureRuns + 1
  /\ UNCHANGED <<mounted, props, location, rendered, canvasRef, lastClick>>

Next ==
  \/ \E k \in DOMAIN PropValues : \E v \in PropValues[k] : Rerender(k, v)
  \/ \E image \in Images : ImageLoad(image)
  \/ ImageError
  \/ ClickButton
  \/ ClickCard
  \/ Unmount
  \/ \E image \in Images : LateImageLoad(image)

Spec == Init /\ [][Next]_vars

----------------------------------------------------------------------------
\* C1: on a mounted card, once a load event has been handled the canvas has
\* exactly the natural width and height of the most recently loaded image.
C1_CanvasHasNaturalSize ==
  (mounted /\ lastLoaded # NoImage) =>
    /\ canvas.width = lastLoaded.naturalWidth
    /\ canvas.height = lastLoaded.naturalHeight

\* A later load of a non-square image has been captured.
C1_Witness ==
  /\ mounted
  /\ loadKind = "other"
  /\ lastLoaded.naturalWidth = 1
  /\ lastLoaded.naturalHeight = 2
  /\ canvas.width = 1
  /\ canvas.height = 2

\* C2: a load callback that runs after the card was unmounted is a no-op: it
\* leaves the canvas as it is and raises no error.
C2_LateLoadIsNoOp ==
  [][(~mounted /\ img.status = "pending" /\ img'.status = "loaded")
       => (canvas' = canvas /\ error' = "none")]_vars

\* C3: a click on the enabled action button calls onButtonClick exactly once
\* and does not navigate, the card being a link or not.
C3_ButtonClickDoesNotNavigate ==
  lastClick.clicked => (lastClick.calls = 1 /\ ~lastClick.navigated)

\* C4: the action button is rendered, with buttonText as its label, exactly
\* when buttonText is a non-empty string or a number, zero included.
C4_ButtonIffLabelProvided ==
  mounted =>
    LET provided == IsNonEmptyString(props.buttonText) \/ props.buttonText.t = "number"
    IN  /\ provided <=> rendered.action.kind = "button"
        /\ provided => rendered.action.label = props.buttonText

\* C5: for a non-empty string gemId the container is a Link to "/gem/" followed
\* by exactly that gemId, carrying the current pathname as prevPathname; for
\* gemId undefined or "" it is a div without a target.
C5_LinkIffIdentifier ==
  mounted =>
    /\ IsNonEmptyString(props.gemId) =>
         /\ rendered.as = "Link"
         /\ rendered.to.defined
         /\ SubSeq(rendered.to.pathname, 1, 5) = "/gem/"
         /\ SubSeq(rendered.to.pathname, 6, Len(rendered.to.pathname)) = props.gemId.s
         /\ rendered.to.prevPathname = location.pathname
    /\ (props.gemId = Undef \/ props.gemId = Str("")) =>
         /\ rendered.as = "div"
         /\ ~rendered.to.defined

\* A link rendered on a page other than the first one.
C5_Witness ==
  /\ mounted
  /\ props.gemId = Str("gem42")
  /\ location.pathname = "/gem/7"
  /\ rendered.to.pathname = "/gem/gem42"
  /\ rendered.to.prevPathname = "/gem/7"

\* C6: after a failed load the capture step has not run for that source, no
\* error has escaped, the request was made once, and a canvas that never
\* captured an image is still the blank default canvas.
C6_FailedLoadIsSilent ==
  img.status = "broken" =>
    /\ captureRuns = 0
    /\ error = "none"
    /\ img.attempts = 1
    /\ lastLoaded = NoImage => canvas = BlankCanvas

\* The first load of a supplied source failed.
C6_Witness ==
  /\ mounted
  /\ img.status = "broken"
  /\ img.src = Str("https://x/img.png")
  /\ lastLoaded = NoImage
  /\ canvas = BlankCanvas

\* C7: with dataUrl undefined the image source is the placeholder; with dataUrl
\* a non-empty string it is dataUrl.
C7_ImageSource ==
  mounted =>
    /\ props.dataUrl = Undef =>
         (rendered.imgSrc = placeholderDataUrl /\ img.src = placeholderDataUrl)
    /\ IsNonEmptyString(props.dataUrl) =>
         (rendered.imgSrc = props.dataUrl /\ img.src = props.dataUrl)

\* The placeholder was rendered for an undefined dataUrl and has loaded.
C7_Witness ==
  /\ mounted
  /\ props.dataUrl = Undef
  /\ img.src = Str("art.png")
  /\ img.status = "loaded"

\* C8 as stated: after a load failure the card shows the placeholder.
C8_PlaceholderAfterFailure ==
  (mounted /\ img.status = "broken") => img.src = placeholderDataUrl

\* C8 amended: after a load failure the image keeps the source it was rendered
\* with: the supplied dataUrl when that is non-empty, the placeholder only when
\* dataUrl is absent or empty.
C8_SourceKeptAfterFailure ==
  (mounted /\ img.status = "broken") =>
    img.src = (IF props.dataUrl.t = "string" /\ props.dataUrl.s # ""
               THEN props.dataUrl ELSE placeholderDataUrl)

\* A supplied source failed and is still the image's source.
C8_Witness ==
  /\ mounted
  /\ img.status = "broken"
  /\ props.dataUrl = Str("https://x/img.png")
  /\ img.src = props.dataUrl

\* C9: handling the load event of the image that was captured last leaves the
\* canvas, size and bitmap, as the first handling left it.
C9_CaptureIdempotent ==
  [][(mounted /\ img.status = "pending" /\ img'.status = "loaded"
        /\ lastLoaded' = lastLoaded)
       => canvas' = canvas]_vars

\* The same image, with a half-transparent pixel, was captured twice in a row.
C9_Witness ==
  /\ mounted
  /\ loadKind = "same"
  /\ \E xy \in DOMAIN lastLoaded.pixels : lastLoaded.pixels[xy].a = 128
  /\ canvas.pixels = lastLoaded.pixels

\* C10: after every load the canvas bitmap is exactly the loaded image's
\* pixels at offset (0,0): nothing of an earlier image is left and nothing of
\* the new one is missing.
C10_BitmapReplacedWholesale ==
  (mounted /\ lastLoaded # NoImage) =>
    \A xy \in Coords(canvas.width, canvas.height) \cup DOMAIN canvas.pixels :
      PixelAt(canvas.pixels, xy) = PixelAt(lastLoaded.pixels, xy)

\* An image with a transparent pixel was captured after a different image.
C10_Witness ==
  /\ mounted
  /\ loadKind = "other"
  /\ \E xy \in Coords(lastLoaded.naturalWidth, lastLoaded.naturalHeight) :
       /\ PixelAt(lastLoaded.pixels, xy) = Transparent
       /\ PixelAt(canvas.pixels, xy) = Transparent
  /\ \E xy \in DOMAIN lastLoaded.pixels : canvas.pixels[xy] = lastLoaded.pixels[xy]

====
